---- MODULE Spec2Model ----
(***************************************************************************)
(* Transaction submission and confirmation engine of QuasarClient          *)
(* (src/src/client/client.ts): sendTransactions, sendTransaction and       *)
(* sendSignedTransaction, with the detached rebroadcast loop, the          *)
(* confirmation wait, the failure simulation and the shared done flag.     *)
(*                                                                         *)
(* JavaScript runs one callback at a time: every action below is one       *)
(* callback, from the resumption of an await to the next await.            *)
(* Strings are sequences of one-character strings.                         *)
(***************************************************************************)
EXTENDS Integers, Sequences, FiniteSets, TLC

\* ---------------------------------------------------------------- bounds
\* number of transactions handed to sendTransactions
NumTx == 2
\* the timeout argument, in milliseconds
TimeoutMs == 2000
\* granularity of the clock, in milliseconds
TickMs == 1000
\* the initial sendRawTransaction answers within MaxSendMs or fails
MaxSendMs == 0
\* longest list of simulation log lines
MaxLogLen == 3
\* longest list of entries handed to signTransactions
MaxEntries == 2
\* longest list of additional signers
MaxSigners == 2

Subs == 1..NumTx

\* the clock reading saturates here: MaxElapsedMs stands for "at least"
MaxElapsedMs == MaxSendMs + TimeoutMs + TickMs

Min(a, b) == IF a < b THEN a ELSE b

\* ------------------------------------------------------------- constants
\* getUnixTs divides milliseconds by 1000
MsPerSec == 1000
\* sendTransaction: await sleep(1000), then await sleep(2000)
WarmupMsSend == 1000
CadenceMsSend == 2000
\* sendSignedTransaction: await sleep(500), then await sleep(500)
WarmupMsSigned == 500
CadenceMsSigned == 500

ProgramLogTag == <<"P", "r", "o", "g", "r", "a", "m", " ", "l", "o", "g", ":", " ">>
TimedOutMsg == <<"T", "i", "m", "e", "d", " ", "o", "u", "t", " ", "a", "w", "a", "i", "t", "i", "n", "g", " ", "c", "o", "n", "f", "i", "r", "m", "a", "t", "i", "o", "n", " ", "o", "n", " ", "t", "r", "a", "n", "s", "a", "c", "t", "i", "o", "n">>
TxFailedMsg == <<"T", "r", "a", "n", "s", "a", "c", "t", "i", "o", "n", " ", "f", "a", "i", "l", "e", "d">>
TxFailedPrefix == <<"T", "r", "a", "n", "s", "a", "c", "t", "i", "o", "n", " ", "f", "a", "i", "l", "e", "d", ":", " ">>

\* ------------------------------------------------- inputs from the outside
\* errors thrown by the wallet / the endpoint before broadcasting starts
SignErrMsg == <<"s", "i", "g", "n", " ", "r", "e", "j", "e", "c", "t", "e", "d">>
SendErrMsg == <<"s", "e", "n", "d", " ", "f", "a", "i", "l", "e", "d">>
BlockhashErrMsg == <<"n", "o", " ", "b", "l", "o", "c", "k", "h", "a", "s", "h">>

\* on-chain error payloads (TransactionError given as a string)
Payloads == { <<"E", "1">>, <<"E", "2">> }

\* the transaction id returned by the initial send of transaction i
Sig(i) == <<"s", "i", "g">> \o <<IF i = 1 THEN "1" ELSE IF i = 2 THEN "2" ELSE "3">>

\* log lines: two tagged lines, a tagged line with empty content, and two
\* untagged lines that share a prefix with the tag
LineA == ProgramLogTag \o <<"a">>
LineB == ProgramLogTag \o <<"b">>
LineEmpty == ProgramLogTag
LineNoSpace == <<"P", "r", "o", "g", "r", "a", "m", " ", "l", "o", "g", ":", "a">>
LineConsumed == <<"P", "r", "o", "g", "r", "a", "m", " ", "c">>
Lines == { LineA, LineB, LineEmpty, LineNoSpace, LineConsumed }

RECURSIVE SeqsUpTo(_, _)
SeqsUpTo(S, n) ==
  IF n = 0 THEN { <<>> }
  ELSE LET shorter == SeqsUpTo(S, n - 1)
       IN  shorter \cup { Append(s, x) : s \in shorter, x \in S }

LogLists == SeqsUpTo(Lines, MaxLogLen)

\* what simulateTransaction gives: it throws, or returns value = {err, logs}
ThrewResp ==
  [threw |-> TRUE, errNull |-> TRUE, err |-> <<>>, logsNull |-> TRUE, logs |-> <<>>]
SimResponses ==
  { ThrewResp }
  \cup { [threw |-> FALSE, errNull |-> TRUE, err |-> <<>>, logsNull |-> TRUE, logs |-> <<>>] }
  \cup { [threw |-> FALSE, errNull |-> TRUE, err |-> <<>>, logsNull |-> FALSE, logs |-> <<LineA>>] }
  \cup { [threw |-> FALSE, errNull |-> FALSE, err |-> e, logsNull |-> TRUE, logs |-> <<>>] :
           e \in Payloads }
  \cup { [threw |-> FALSE, errNull |-> FALSE, err |-> e, logsNull |-> FALSE, logs |-> l] :
           e \in Payloads, l \in LogLists }

VARIABLES
  api,      \* the entry point the caller used
  pc,       \* pc[i]: where the orchestrator call of submission i stands
  done,     \* done[i]: the flag shared with the rebroadcast loop
  loop,     \* loop[i]: the detached rebroadcast loop
  wakeAt,   \* wakeAt[i]: clock reading at which the loop's sleep is over
  elapsed,  \* elapsed[i]: getUnixTs() - startTime, in milliseconds
  resent,   \* resent[i]: parity of the number of resubmissions of the loop
  waitFrom, \* waitFrom[i]: clock reading when the confirmation wait started
  wait,     \* wait[i]: how awaitTransactionSignatureConfirmation ended
  sim,      \* sim[i]: the simulateTransaction call of submission i
  result,   \* result[i]: what the call gave its caller
  lastSim,  \* the latest simulation response and the submission it was for
  batch,    \* the promise returned by sendTransactions
  dropped,  \* dropped[i]: some resubmission of the loop has failed
  tx,       \* tx[i]: the transaction: blockhash fetches, signings,
            \* rawTransaction and txid
  wire,     \* wire[i]: the byte strings handed to sendRawTransaction
  sg        \* a direct call of signTransaction or signTransactions

vars == <<api, pc, done, loop, wakeAt, elapsed, resent, waitFrom, wait, sim, result, lastSim,
          batch, dropped, tx, wire, sg>>

NoResult == [kind |-> "none", val |-> <<>>]
Ok(txid) == [kind |-> "ok", val |-> txid]
Err(msg) == [kind |-> "err", val |-> msg]

Settled(i) == pc[i] \in {"returned", "thrown"}
Broadcasting(i) == loop[i] # "none"
LoopEnded(i) == loop[i] \in {"endedDone", "endedElapsed"}

\* ------------------------------------------------------------ pure parts
StartsWith(s, p) == Len(s) >= Len(p) /\ SubSeq(s, 1, Len(p)) = p
\* String.prototype.slice(n) for 0 <= n
Slice(s, n) == SubSeq(s, n + 1, Len(s))
\* JSON.stringify of a string payload: the payload in double quotes
JSONstringify(e) == <<"\"">> \o e \o <<"\"">>

\* a scan that runs first to last
ScanLogsForward(logs, i) ==
  LET tagged == { k \in 1..i : StartsWith(logs[k], ProgramLogTag) }
  IN  IF tagged = {} THEN 0 ELSE CHOOSE k \in tagged : \A m \in tagged : k <= m

\* the scan of the catch block, started at index i (1-based): the index of
\* the line it throws on, 0 when the scan runs off the list
RECURSIVE ScanLogs(_, _)
ScanLogs(logs, i) ==
  IF i < 1 THEN 0
  ELSE IF StartsWith(logs[i], ProgramLogTag) THEN i
       ELSE ScanLogs(logs, i - 1)

\* a catch block without the fallback to JSON.stringify(simulateResult.err)
DiagnoseNoFallback(resp) ==
  IF ~resp.threw /\ ~resp.errNull
  THEN LET k == IF resp.logsNull THEN 0 ELSE ScanLogs(resp.logs, Len(resp.logs))
       IN  IF k > 0
           THEN Err(TxFailedPrefix \o Slice(resp.logs[k], Len(ProgramLogTag)))
           ELSE Err(TxFailedMsg)
  ELSE Err(TxFailedMsg)

\* a catch block that tests simulateResult only, not simulateResult.err
DiagnoseNoErrCheck(resp) ==
  IF ~resp.threw
  THEN LET k == IF resp.logsNull THEN 0 ELSE ScanLogs(resp.logs, Len(resp.logs))
       IN  IF k > 0
           THEN Err(TxFailedPrefix \o Slice(resp.logs[k], Len(ProgramLogTag)))
           ELSE Err(JSONstringify(resp.err))
  ELSE Err(TxFailedMsg)

\* the error thrown after simulateTransaction, from its response
Diagnose(resp) ==
  IF ~resp.threw /\ ~resp.errNull
  THEN LET k == IF resp.logsNull THEN 0 ELSE ScanLogs(resp.logs, Len(resp.logs))
       IN  IF k > 0
           THEN Err(TxFailedPrefix \o Slice(resp.logs[k], Len(ProgramLogTag)))
           ELSE Err(JSONstringify(resp.err))
  ELSE Err(TxFailedMsg)

\* a catch block that takes every error for a timeout, and one that takes none
CatchAlwaysTimeout(w) == TRUE
CatchNeverTimeout(w) == FALSE

\* if (err.timeout)
CatchIsTimeout(w) == w.how = "timeout"

\* an exit path that leaves the flag as it is
FinallyDoneSkipped(d) == d

\* finally { done = true }
FinallyDone(d) == TRUE

\* getUnixTs() - startTime < timeout / 1000, both sides times 1000
TimeGuardSend(el) == el < TimeoutMs
\* getUnixTs() - startTime < timeout, both sides times 1000
TimeGuardSigned(el) == el < TimeoutMs * MsPerSec

\* transaction.serialize(): the bytes are a function of the transaction, its
\* recent blockhash and its signatures
Serialize(i, t) == <<i, t.blockhash, t.signs>>

\* a loop that signs again with a new blockhash and sends those bytes
LoopSendsResigned(t) == <<t.raw[1], t.blockhash + 1, t.signs + 1>>

\* the bytes the loop hands to sendRawTransaction: rawTransaction
LoopSends(t) == t.raw

\* a loop that awaits its sendRawTransaction: a rejection ends it
LoopAfterSendAwaited(ok) == IF ok THEN "sleeping" ELSE "endedThrown"

\* the loop after this.connection.sendRawTransaction(...), whose promise it
\* neither awaits nor catches: on to await sleep(...)
LoopAfterSend(ok) == "sleeping"

\* a loop started before the initial send has answered
LoopStartEager(ok) == "sleeping"

\* the loop after the initial await sendRawTransaction: started (up to its
\* first sleep) when it gave a txid, never reached when it threw
LoopStart(ok) == IF ok THEN "sleeping" ELSE "none"

\* a loop that looks at the clock only, and a loop that never stops
LoopCondIgnoresDone(d, el, a) ==
  IF a = "sendSignedTransaction" THEN TimeGuardSigned(el) ELSE TimeGuardSend(el)
LoopCondNeverStops(d, el, a) == TRUE
\* a loop that looks at the flag only
LoopCondNoTimeGuard(d, el, a) == ~d

\* the while condition of the rebroadcast loop
LoopCond(d, el, a) ==
  ~d /\ (IF a = "sendSignedTransaction" THEN TimeGuardSigned(el) ELSE TimeGuardSend(el))

WarmupMs(a) == IF a = "sendSignedTransaction" THEN WarmupMsSigned ELSE WarmupMsSend
CadenceMs(a) == IF a = "sendSignedTransaction" THEN CadenceMsSigned ELSE CadenceMsSend

\* Promise.all over the sendTransaction calls, after call i settled with r:
\* rejected with the first rejection, resolved once all are fulfilled
PromiseAll(b, a, r, all) ==
  IF a # "sendTransactions" \/ b.state # "pending" THEN b
  ELSE IF r.kind = "err" THEN [state |-> "rejected", err |-> r.val, ids |-> <<>>]
  ELSE IF \A j \in Subs : all[j].kind = "ok"
       THEN [state |-> "resolved", err |-> <<>>, ids |-> [j \in Subs |-> all[j].val]]
       ELSE b

\* ------------------------------------------------------------------ state
NoWait == [how |-> "pending", payload |-> <<>>]

\* the submissions the caller's call starts: one per transaction of the
\* batch, one for a direct call of sendTransaction or sendSignedTransaction
Called(a) ==
  IF a = "sendTransactions" THEN Subs
  ELSE IF a \in {"sendTransaction", "sendSignedTransaction"} THEN {1}
  ELSE {}

\* ------------------------------------- signTransaction, signTransactions
\* the payers: an Account, a wallet adapter whose connected is true, and a
\* wallet adapter whose connected is false or missing
PayerKinds == {"account", "walletConnected", "walletNotConnected"}
\* payer?.connected
Connected(p) == p = "walletConnected"
\* payer instanceof Account
InstanceofAccount(p) == p = "account"

\* what is handed to partialSign and sign: the payer, additional signer k,
\* or undefined
PayerArg(p) == [kind |-> IF p = "account" THEN "account" ELSE "wallet", id |-> 0]
SignerArg(k) == [kind |-> "account", id |-> k]
Undefined == [kind |-> "undefined", id |-> 0]

\* the signers of a call or of an entry: a list of Accounts, or left out
SignerLists == { [k \in 1..n |-> SignerArg(k)] : n \in 0..MaxSigners }
Omitted == [given |-> FALSE, list |-> <<>>]
SignersFields == {Omitted} \cup { [given |-> TRUE, list |-> l] : l \in SignerLists }

\* ({ transaction, signers = [] }): the default of the first forEach
DefaultSigners(f) == IF f.given THEN f.list ELSE <<>>
\* [payer].concat(signers): an array is spread, anything else is appended
Concat(p, f) == IF f.given THEN <<PayerArg(p)>> \o f.list ELSE <<PayerArg(p), Undefined>>
\* transaction.sign(...args) reads the key of every argument: it throws on
\* one that is not key material
TransactionSignThrows(args) == \E k \in 1..Len(args) : args[k].kind # "account"

\* the calls of partialSign over entries 1..n: one for every entry with
\* signers.length > 0
RECURSIVE PartialSigns(_, _)
PartialSigns(entries, n) ==
  IF n = 0 THEN <<>>
  ELSE LET l == DefaultSigners(entries[n])
       IN  PartialSigns(entries, n - 1) \o (IF Len(l) > 0 THEN <<l>> ELSE <<>>)

\* the second forEach over entries 1..n: the calls of transaction.sign made,
\* up to and including the first that throws
RECURSIVE LocalSigns(_, _, _)
LocalSigns(p, entries, n) ==
  IF n = 0 THEN <<>>
  ELSE LET before == LocalSigns(p, entries, n - 1)
       IN  IF before # <<>> /\ TransactionSignThrows(before[Len(before)])
           THEN before
           ELSE Append(before, Concat(p, entries[n]))

NoSigning ==
  [payer |-> "account", entries |-> <<>>, pos |-> "none", blockhash |-> FALSE,
   partial |-> <<>>, local |-> <<>>, walletCalls |-> <<>>]

\* the calls of signTransaction (one transaction, signers given) and of
\* signTransactions (a list of entries, signers optional in each)
SignCalls(a) ==
  { [NoSigning EXCEPT !.payer = p, !.entries = e, !.pos = "blockhash"] :
      p \in PayerKinds,
      e \in IF a = "signTransaction"
             THEN { <<[given |-> TRUE, list |-> l]>> : l \in SignerLists }
             ELSE UNION { [1..n -> SignersFields] : n \in 1..MaxEntries } }

NoTx == [blockhash |-> 0, signs |-> 0, raw |-> <<>>, txid |-> <<>>]
\* the argument of sendSignedTransaction: signed by the caller, serialized
\* at the start of the call
SignedTx(i) ==
  LET t == [blockhash |-> 1, signs |-> 1, raw |-> <<>>, txid |-> <<>>]
  IN  [t EXCEPT !.raw = Serialize(i, t)]

InitWith(apis) ==
  /\ api \in apis
  /\ pc = [i \in Subs |-> IF i \notin Called(api) THEN "idle"
                          ELSE IF api = "sendSignedTransaction" THEN "sending"
                          ELSE "built"]
  /\ sg \in (IF api \in {"signTransaction", "signTransactions"}
               THEN SignCalls(api) ELSE {NoSigning})
  /\ dropped = [i \in Subs |-> FALSE]
  /\ tx = [i \in Subs |-> IF i \in Called(api) /\ api = "sendSignedTransaction"
                          THEN SignedTx(i) ELSE NoTx]
  /\ wire = [i \in Subs |-> IF i \in Called(api) /\ api = "sendSignedTransaction"
                            THEN {SignedTx(i).raw} ELSE {}]
  /\ done = [i \in Subs |-> FALSE]
  /\ loop = [i \in Subs |-> "none"]
  /\ wakeAt = [i \in Subs |-> 0]
  /\ elapsed = [i \in Subs |-> 0]
  /\ resent = [i \in Subs |-> FALSE]
  /\ waitFrom = [i \in Subs |-> 0]
  /\ wait = [i \in Subs |-> NoWait]
  /\ sim = [i \in Subs |-> "none"]
  /\ result = [i \in Subs |-> NoResult]
  /\ lastSim = [sub |-> 0, resp |-> ThrewResp]
  /\ batch = [state |-> IF api = "sendTransactions" THEN "pending" ELSE "none",
              err |-> <<>>, ids |-> <<>>]

Init == InitWith({"sendTransactions", "sendTransaction", "sendSignedTransaction"})

\* one direct call, for the properties of a single submission
InitOne == InitWith({"sendTransaction", "sendSignedTransaction"})

\* the call of submission i settles with r: its promise and Promise.all
Settle(i, r) ==
  /\ pc' = [pc EXCEPT ![i] = IF r.kind = "ok" THEN "returned" ELSE "thrown"]
  /\ result' = [result EXCEPT ![i] = r]
  /\ batch' = PromiseAll(batch, api, r, result')

\* signTransaction: await this.connection.getRecentBlockhash() is over
FetchBlockhash(i) ==
  /\ pc[i] = "built"
  /\ \E ok \in BOOLEAN :
       IF ok
       THEN /\ pc' = [pc EXCEPT ![i] = "signing"]
            /\ tx' = [tx EXCEPT ![i].blockhash = @ + 1]
            /\ UNCHANGED <<result, batch>>
       ELSE /\ Settle(i, Err(BlockhashErrMsg))
            /\ UNCHANGED tx
  /\ UNCHANGED <<api, done, loop, wakeAt, elapsed, resent, waitFrom, wait, sim, lastSim,
                 dropped, wire, sg>>

\* signTransaction: the signing is over; sendTransaction serializes, takes
\* startTime and calls sendRawTransaction
Sign(i) ==
  /\ pc[i] = "signing"
  /\ \E ok \in BOOLEAN :
       IF ok
       THEN LET t == [tx[i] EXCEPT !.signs = @ + 1]
            IN  /\ pc' = [pc EXCEPT ![i] = "sending"]
                /\ tx' = [tx EXCEPT ![i] = [t EXCEPT !.raw = Serialize(i, t)]]
                /\ wire' = [wire EXCEPT ![i] = @ \cup {Serialize(i, t)}]
                /\ UNCHANGED <<result, batch>>
       ELSE /\ Settle(i, Err(SignErrMsg))
            /\ UNCHANGED <<tx, wire>>
  /\ UNCHANGED <<api, done, loop, wakeAt, elapsed, resent, waitFrom, wait, sim, lastSim,
                 dropped, sg>>

\* await this.connection.sendRawTransaction(rawTransaction): on success
\* let done = false, the loop runs up to its first sleep, and the
\* confirmation wait starts
InitialSend(i) ==
  /\ pc[i] = "sending"
  /\ \E ok \in BOOLEAN :
       IF ok
       THEN /\ elapsed[i] <= MaxSendMs
            /\ pc' = [pc EXCEPT ![i] = "waiting"]
            /\ tx' = [tx EXCEPT ![i].txid = Sig(i)]
            /\ done' = [done EXCEPT ![i] = FALSE]
            /\ loop' = [loop EXCEPT ![i] = LoopStart(ok)]
            /\ wakeAt' = [wakeAt EXCEPT ![i] = Min(elapsed[i] + WarmupMs(api), MaxElapsedMs)]
            /\ waitFrom' = [waitFrom EXCEPT ![i] = elapsed[i]]
            /\ UNCHANGED <<result, batch>>
       ELSE /\ Settle(i, Err(SendErrMsg))
            /\ loop' = [loop EXCEPT ![i] = LoopStart(ok)]
            /\ wakeAt' = [wakeAt EXCEPT ![i] =
                            IF LoopStart(ok) = "sleeping"
                            THEN Min(elapsed[i] + WarmupMs(api), MaxElapsedMs) ELSE @]
            /\ UNCHANGED <<done, waitFrom, tx>>
  /\ UNCHANGED <<api, elapsed, resent, wait, sim, lastSim, dropped, wire, sg>>

\* await sleep(ms) is over no earlier than ms after it began
SleepOver(i) == elapsed[i] >= wakeAt[i]

\* the rebroadcast loop comes back from its sleep: the while condition,
\* and either one more sendRawTransaction and sleep, or the end of the loop
LoopWake(i) ==
  /\ loop[i] = "sleeping"
  /\ SleepOver(i)
  /\ IF LoopCond(done[i], elapsed[i], api)
     THEN \E ok \in BOOLEAN :
            /\ resent' = [resent EXCEPT ![i] = ~resent[i]]
            /\ wire' = [wire EXCEPT ![i] = @ \cup {LoopSends(tx[i])}]
            /\ dropped' = [dropped EXCEPT ![i] = @ \/ ~ok]
            /\ loop' = [loop EXCEPT ![i] = LoopAfterSend(ok)]
            /\ wakeAt' = [wakeAt EXCEPT ![i] = Min(elapsed[i] + CadenceMs(api), MaxElapsedMs)]
     ELSE /\ loop' = [loop EXCEPT ![i] = IF done[i] THEN "endedDone" ELSE "endedElapsed"]
          /\ UNCHANGED <<resent, wakeAt, wire, dropped>>
  /\ UNCHANGED <<api, pc, done, elapsed, waitFrom, wait, sim, result, lastSim, batch, tx, sg>>

\* the orchestrator after awaitTransactionSignatureConfirmation ended as w:
\* return txid, or the catch block up to its throw or to the await of
\* simulateTransaction; finally runs whenever the call leaves the try
AfterWait(i, w) ==
  /\ wait' = [wait EXCEPT ![i] = w]
  /\ IF w.how = "ok"
     THEN /\ Settle(i, Ok(tx[i].txid))
          /\ done' = [done EXCEPT ![i] = FinallyDone(done[i])]
          /\ UNCHANGED sim
     ELSE IF CatchIsTimeout(w)
     THEN /\ Settle(i, Err(TimedOutMsg))
          /\ done' = [done EXCEPT ![i] = FinallyDone(done[i])]
          /\ UNCHANGED sim
     ELSE /\ pc' = [pc EXCEPT ![i] = "simulating"]
          /\ sim' = [sim EXCEPT ![i] = "running"]
          /\ UNCHANGED <<done, result, batch>>
  /\ UNCHANGED <<api, loop, wakeAt, elapsed, resent, waitFrom, lastSim, dropped, tx, wire, sg>>

TimeoutElapsed(i) == elapsed[i] >= waitFrom[i] + TimeoutMs

\* the confirmation wait sees a status at or above the requested level
WatchSuccess(i) ==
  /\ pc[i] = "waiting"
  /\ ~TimeoutElapsed(i)
  /\ AfterWait(i, [how |-> "ok", payload |-> <<>>])

\* the confirmation wait sees an on-chain error payload
WatchFail(i) ==
  /\ pc[i] = "waiting"
  /\ ~TimeoutElapsed(i)
  /\ \E p \in Payloads : AfterWait(i, [how |-> "err", payload |-> p])

\* the confirmation wait runs into its timeout
WatchTimeout(i) ==
  /\ pc[i] = "waiting"
  /\ TimeoutElapsed(i)
  /\ AfterWait(i, [how |-> "timeout", payload |-> <<>>])

\* await simulateTransaction(...) is over: the rest of the catch block
\* throws, and finally sets done
AfterSim(i, threw, e) ==
  /\ pc[i] = "simulating"
  /\ sim' = [sim EXCEPT ![i] = IF threw THEN "threw" ELSE "returned"]
  /\ Settle(i, e)
  /\ done' = [done EXCEPT ![i] = FinallyDone(done[i])]
  /\ UNCHANGED <<api, loop, wakeAt, elapsed, resent, waitFrom, wait, dropped, tx, wire, sg>>

\* every response, told apart only by what the catch block makes of it
SimOutcomes == { [threw |-> resp.threw, e |-> Diagnose(resp)] : resp \in SimResponses }

SimReturn(i) ==
  /\ pc[i] = "simulating"
  /\ \E o \in SimOutcomes : AfterSim(i, o.threw, o.e)
  /\ UNCHANGED lastSim

\* the same step, with the response kept in lastSim
SimReturnLogged(i) ==
  /\ pc[i] = "simulating"
  /\ \E resp \in SimResponses :
       AfterSim(i, resp.threw, Diagnose(resp)) /\ lastSim' = [sub |-> i, resp |-> resp]

\* the clock of every submission that still reads it advances
Running(i) == pc[i] \in {"sending", "waiting", "simulating"} \/ loop[i] = "sleeping"

Tick ==
  /\ \E i \in Subs : Running(i) /\ elapsed[i] < MaxElapsedMs
  /\ elapsed' = [i \in Subs |->
                   IF Running(i) THEN Min(elapsed[i] + TickMs, MaxElapsedMs) ELSE elapsed[i]]
  /\ UNCHANGED <<api, pc, done, loop, wakeAt, resent, waitFrom, wait, sim, result, lastSim,
                 batch, dropped, tx, wire, sg>>

Next ==
  \/ \E i \in Subs : FetchBlockhash(i)
  \/ \E i \in Subs : Sign(i)
  \/ \E i \in Subs : InitialSend(i)
  \/ \E i \in Subs : LoopWake(i)
  \/ \E i \in Subs : WatchSuccess(i)
  \/ \E i \in Subs : WatchFail(i)
  \/ \E i \in Subs : WatchTimeout(i)
  \/ \E i \in Subs : SimReturn(i)
  \/ Tick

Spec == Init /\ [][Next]_vars

NextOne ==
  \/ \E i \in Subs : FetchBlockhash(i)
  \/ \E i \in Subs : Sign(i)
  \/ \E i \in Subs : InitialSend(i)
  \/ \E i \in Subs : LoopWake(i)
  \/ \E i \in Subs : WatchSuccess(i)
  \/ \E i \in Subs : WatchFail(i)
  \/ \E i \in Subs : WatchTimeout(i)
  \/ \E i \in Subs : SimReturnLogged(i)
  \/ Tick

\* one direct call, every simulation response kept
SpecOne == InitOne /\ [][NextOne]_vars

\* the scheduling the event loop gives: time passes, every timer and every
\* pending network call comes back
Fairness ==
  /\ WF_vars(Tick)
  /\ \A i \in Subs :
       /\ WF_vars(LoopWake(i))
       /\ WF_vars(WatchSuccess(i) \/ WatchFail(i) \/ WatchTimeout(i))
       /\ WF_vars(SimReturn(i))

\* a batch, under that scheduling
LiveSpec == InitWith({"sendTransactions"}) /\ [][Next]_vars /\ Fairness

\* everything of the sending part, which a call of signTransaction or
\* signTransactions leaves alone
sendVars == <<api, pc, done, loop, wakeAt, elapsed, resent, waitFrom, wait, sim, result,
              lastSim, batch, dropped, tx, wire>>

\* await this.connection.getRecentBlockhash(...) is over: the rest of
\* signTransaction or signTransactions up to the call of the wallet, or to
\* the end
SignAfterBlockhash ==
  /\ sg.pos = "blockhash"
  /\ \E ok \in BOOLEAN :
       IF ~ok
       THEN sg' = [sg EXCEPT !.pos = "thrown"]
       ELSE LET prepared == [sg EXCEPT !.blockhash = TRUE,
                                       !.partial = PartialSigns(sg.entries, Len(sg.entries))]
            IN  IF api = "signTransaction"
                THEN IF Connected(sg.payer)
                     THEN sg' = [prepared EXCEPT !.pos = "wallet",
                                                 !.walletCalls = <<"signTransaction">>]
                     ELSE LET args == Concat(sg.payer, sg.entries[1])
                          IN  sg' = [prepared EXCEPT
                                       !.local = <<args>>,
                                       !.pos = IF TransactionSignThrows(args)
                                               THEN "thrown" ELSE "returned"]
                ELSE IF ~InstanceofAccount(sg.payer)
                     THEN sg' = [prepared EXCEPT !.pos = "wallet",
                                                 !.walletCalls = <<"signAllTransactions">>]
                     ELSE LET calls == LocalSigns(sg.payer, sg.entries, Len(sg.entries))
                          IN  sg' = [prepared EXCEPT
                                       !.local = calls,
                                       !.pos = IF TransactionSignThrows(calls[Len(calls)])
                                               THEN "thrown" ELSE "returned"]
  /\ UNCHANGED sendVars

\* await payer.signTransaction(...) or payer.signAllTransactions(...) is
\* over
WalletSigned ==
  /\ sg.pos = "wallet"
  /\ \E ok \in BOOLEAN : sg' = [sg EXCEPT !.pos = IF ok THEN "returned" ELSE "thrown"]
  /\ UNCHANGED sendVars

SignNext ==
  \/ SignAfterBlockhash
  \/ WalletSigned

\* one direct call of signTransaction or of signTransactions
SignSpec == InitWith({"signTransaction", "signTransactions"}) /\ [][SignNext]_vars

\* ================================================================ claims
Resent(i) == resent'[i] # resent[i]

\* C1: once the broadcast loop of a call has been started, done is false
\* until the call leaves, it is true whenever the call has returned or
\* thrown (on every exit path), and it is never set back to false.
C1_DoneOnEveryExit ==
  /\ [](\A i \in Subs : Broadcasting(i) => (done[i] <=> Settled(i)))
  /\ [][\A i \in Subs : done[i] => done'[i]]_vars

\* C1 witness: a call left through the path where the simulation threw,
\* with the flag set.
C1_Witness ==
  \E i \in Subs : pc[i] = "thrown" /\ sim[i] = "threw" /\ Broadcasting(i) /\ done[i]

\* C2: the rebroadcast loop issues no sendRawTransaction once the call has
\* returned or thrown, nor once done is true.
C2_NoSendAfterReturn ==
  [][\A i \in Subs : Resent(i) => ~Settled(i) /\ ~done[i]]_vars

\* C2 witness: the call is over and the loop, back from a sleep, saw done
\* and ended instead of sending.
C2_Witness ==
  \E i \in Subs : Settled(i) /\ loop[i] = "endedDone" /\ resent[i]

\* C3 (as claimed): no resubmission is issued once the confirmation wait
\* has finished, in particular none while the simulation is in progress.
C3_StopsWhenWaitEnds ==
  [][\A i \in Subs : Resent(i) => wait[i].how = "pending"]_vars

\* C4 (as claimed): once every submission of a batch is over, the caller of
\* sendTransactions holds the transaction id of every submission that
\* succeeded.
C4_BatchKeepsEveryResult ==
  (api = "sendTransactions" /\ \A i \in Subs : Settled(i))
    => \A i \in Subs :
         result[i].kind = "ok"
           => batch.state = "resolved" /\ batch.ids[i] = result[i].val

\* C5: in a batch, every submission that reached broadcasting eventually
\* has its done flag set and its rebroadcast loop ended, whatever becomes of
\* the other submissions.
C5_BatchLoopsEnd ==
  \A i \in Subs : Broadcasting(i) ~> (done[i] /\ LoopEnded(i))

\* C5 witness: one submission of the batch failed, and another one, which
\* succeeded, has its flag set and its loop ended.
C5_Witness ==
  \E i, j \in Subs :
    /\ i # j
    /\ pc[i] = "thrown"
    /\ pc[j] = "returned" /\ done[j] /\ LoopEnded(j)
    /\ batch.state = "rejected"

\* C6 (as claimed): once sendTransactions has resolved or rejected, no
\* submission of the batch has a live rebroadcast loop with done = false.
C6_NoLoopOutlivesBatch ==
  batch.state \in {"resolved", "rejected"}
    => \A i \in Subs : ~(loop[i] = "sleeping" /\ ~done[i])

C8_TimeoutFires ==
  \A i \in Subs :
    /\ (Settled(i) /\ Broadcasting(i) /\ wait[i].how \notin {"ok", "err"})
         => /\ result[i] = Err(TimedOutMsg)
            /\ elapsed[i] >= waitFrom[i] + TimeoutMs
    /\ result[i] = Err(TimedOutMsg) => wait[i].how = "timeout"

\* C8 witness: a call threw the timeout error.
C8_Witness ==
  \E i \in Subs :
    pc[i] = "thrown" /\ wait[i].how = "timeout" /\ result[i] = Err(TimedOutMsg)

\* s has p as a contiguous part
Contains(s, p) ==
  \E k \in 0..(Len(s) - Len(p)) : SubSeq(s, k + 1, k + Len(p)) = p

\* C9 (as claimed): a call whose confirmation wait saw an on-chain error
\* payload throws an error that is not the timeout error and that carries
\* that payload, whatever the simulation gives.
C9_ErrorCarriesPayload ==
  \A i \in Subs :
    (Settled(i) /\ wait[i].how = "err")
      => /\ result[i].kind = "err"
         /\ result[i].val # TimedOutMsg
         /\ Contains(result[i].val, wait[i].payload)

\* the lines of a log list that start with the tag
Tagged(logs) == { k \in 1..Len(logs) : StartsWith(logs[k], ProgramLogTag) }
\* a line without its first Len(ProgramLogTag) characters
Content(line) ==
  [j \in 1..(Len(line) - Len(ProgramLogTag)) |-> line[j + Len(ProgramLogTag)]]

\* C10: when the simulation returned an error and logs with at least one
\* line starting with 'Program log: ', the error thrown is 'Transaction
\* failed: ' followed by the diagnosis, and the diagnosis is the content,
\* tag removed, of the last such line.
C10_LastProgramLog ==
  LET r == lastSim.resp
  IN  (lastSim.sub # 0 /\ ~r.threw /\ ~r.errNull /\ ~r.logsNull /\ Tagged(r.logs) # {})
        => LET k == CHOOSE n \in Tagged(r.logs) : \A m \in Tagged(r.logs) : m <= n
               msg == result[lastSim.sub].val
           IN  /\ result[lastSim.sub].kind = "err"
               /\ StartsWith(msg, TxFailedPrefix)
               /\ Slice(msg, Len(TxFailedPrefix)) = Content(r.logs[k])

\* C10 witness: two tagged lines and then an untagged one; the call threw
\* with the content of the second line.
C10_Witness ==
  /\ lastSim.sub # 0
  /\ ~lastSim.resp.threw /\ ~lastSim.resp.errNull /\ ~lastSim.resp.logsNull
  /\ lastSim.resp.logs = <<LineA, LineB, LineConsumed>>
  /\ result[lastSim.sub] = Err(TxFailedPrefix \o <<"b">>)

\* C11: when the simulation returned an error and no log line starts with
\* 'Program log: ' (logs absent, empty or all untagged), the message of the
\* error thrown is the simulation's error payload as JSON: the payload in
\* double quotes.
C11_JsonFallback ==
  LET r == lastSim.resp
  IN  (lastSim.sub # 0 /\ ~r.threw /\ ~r.errNull /\ (r.logsNull \/ Tagged(r.logs) = {}))
        => result[lastSim.sub] = Err(<<"\"">> \o r.err \o <<"\"">>)

\* C11 witness: two untagged lines; the call threw the payload "E1" as JSON.
C11_Witness ==
  /\ lastSim.sub # 0
  /\ ~lastSim.resp.threw /\ ~lastSim.resp.errNull /\ ~lastSim.resp.logsNull
  /\ lastSim.resp.logs = <<LineConsumed, LineNoSpace>>
  /\ result[lastSim.sub] = Err(<<"\"", "E", "1", "\"">>)

\* C12: when the confirmation wait failed with a non-timeout error and
\* simulateTransaction threw or reported no error, the call throws the
\* generic 'Transaction failed' and returns no transaction id.
C12_GenericFailure ==
  LET r == lastSim.resp
  IN  (lastSim.sub # 0 /\ (r.threw \/ r.errNull))
        => /\ wait[lastSim.sub].how = "err"
           /\ pc[lastSim.sub] = "thrown"
           /\ result[lastSim.sub] = Err(TxFailedMsg)

\* C12 witness: the simulation threw and the call threw 'Transaction failed'.
C12_Witness ==
  /\ lastSim.sub # 0 /\ lastSim.resp.threw
  /\ sim[lastSim.sub] = "threw"
  /\ result[lastSim.sub] = Err(TxFailedMsg)

\* the time limit of the loop, as a clock reading in milliseconds
LoopLimitMs(a) == IF a = "sendSignedTransaction" THEN TimeoutMs * MsPerSec ELSE TimeoutMs

C20_SameTimeGuard ==
  [][\A i \in Subs : Resent(i) => elapsed[i] < TimeoutMs]_vars

\* C14: a resubmission of the loop, failed or not, is never surfaced: the step
\* leaves the call where it was (position, result, done flag, outcome of the
\* wait) and the loop goes back to sleep; and the result of a call that
\* reached the wait is decided by the wait (and the diagnosis of its failure)
\* alone, whether or not resubmissions failed on the way.
C14_ResendErrorsIgnored ==
  [][\A i \in Subs :
       /\ Resent(i) =>
            /\ loop'[i] = "sleeping"
            /\ pc'[i] = pc[i] /\ result'[i] = result[i]
            /\ done'[i] = done[i] /\ wait'[i] = wait[i]
       /\ (pc[i] \in {"waiting", "simulating"} /\ Settled(i)')
            => /\ wait'[i].how = "ok" => result'[i] = Ok(Sig(i))
               /\ wait'[i].how = "timeout" => result'[i] = Err(TimedOutMsg)
               /\ wait'[i].how = "err" => result'[i] = Diagnose(lastSim'.resp)]_vars

C14_Witness ==
  \E i \in Subs : dropped[i] /\ loop[i] = "sleeping" /\ pc[i] = "returned"
                    /\ result[i] = Ok(Sig(i))

\* C15: within one submission the transaction gets one blockhash and is signed
\* once, it is serialized once, and the id awaited, once known, never changes;
\* a resubmission of the loop leaves the transaction alone and hands
\* sendRawTransaction the very bytes of the initial send, so that all the
\* sends of a submission carry one byte string.
C15_SameBytesEverySend ==
  [][\A i \in Subs :
       /\ tx'[i].blockhash <= 1 /\ tx'[i].signs <= 1
       /\ tx[i].raw # <<>> => tx'[i].raw = tx[i].raw
       /\ tx[i].txid # <<>> => tx'[i].txid = tx[i].txid
       /\ Resent(i) => (tx'[i] = tx[i] /\ wire'[i] = {tx[i].raw})
       /\ Cardinality(wire'[i]) <= 1]_vars

C15_Witness ==
  \E i \in Subs : /\ api = "sendTransaction" /\ resent[i]
                    /\ tx[i].signs = 1 /\ tx[i].blockhash = 1
                    /\ tx[i].raw = Serialize(i, tx[i]) /\ wire[i] = {tx[i].raw}

\* the positions of sendTransaction as states of the submission: Built up to
\* the end of signing, Signed while the initial send is out, Broadcasting
\* while the confirmation wait runs, Diagnosing while the simulation runs,
\* Confirmed and Failed as the two ways of being Done
Stage(p) ==
  CASE p \in {"built", "signing"} -> "Built"
    [] p = "sending" -> "Signed"
    [] p = "waiting" -> "Broadcasting"
    [] p = "simulating" -> "Diagnosing"
    [] p = "returned" -> "Confirmed"
    [] p = "thrown" -> "Failed"
    [] OTHER -> "Idle"

\* the transitions of the state machine, with a failure of the blockhash
\* fetch, of the signing or of the initial send leading from Built or Signed
\* to Failed
MachineSteps ==
  { <<"Built", "Built">>, <<"Built", "Signed">>, <<"Signed", "Broadcasting">>,
    <<"Broadcasting", "Confirmed">>, <<"Broadcasting", "Diagnosing">>,
    <<"Diagnosing", "Failed">>, <<"Built", "Failed">>, <<"Signed", "Failed">> }

\* what holds of a submission of sendTransaction at every position: blockhash
\* before signing, signing before the initial send, loop and wait only once
\* the initial send has returned the id, and a return exactly on a successful
\* wait, of the id of the initial send
OrderOfSteps(i) ==
  /\ tx[i].signs > 0 => tx[i].blockhash > 0
  /\ wire[i] # {} => tx[i].signs > 0
  /\ (loop[i] # "none" \/ wait[i] # NoWait \/ pc[i] \in {"waiting", "simulating", "returned"})
       => tx[i].txid = Sig(i)
  /\ pc[i] = "returned" <=> wait[i].how = "ok"
  /\ pc[i] = "returned" => result[i] = Ok(Sig(i))
  /\ result[i].kind = "ok" => pc[i] = "returned"

C18_NoWorkAfterEarlyFailure ==
  [][\A i \in Subs :
       /\ (pc'[i] = "thrown" /\ tx'[i].txid = <<>>)
            => /\ loop'[i] = "none" /\ wait'[i] = NoWait /\ sim'[i] = "none"
               /\ ~resent'[i] /\ ~Resent(i)
               /\ result'[i].kind = "err"
       /\ (pc'[i] = "thrown" /\ tx'[i].signs = 0) => wire'[i] = {}
       /\ (pc[i] = "sending" /\ pc'[i] = "thrown") => result'[i] = Err(SendErrMsg)]_vars

C18_Witness ==
  \E i \in Subs :
    /\ pc[i] = "thrown" /\ result[i] = Err(SendErrMsg) /\ wire[i] = {tx[i].raw}
    /\ tx[i].txid = <<>> /\ loop[i] = "none" /\ wait[i] = NoWait /\ sim[i] = "none"

\* C16: in a call of signTransaction or signTransactions the wallet and the
\* local transaction.sign are never both called, a wallet payer (connected or
\* not) never goes through the local sign, a local payer never goes through
\* the wallet, and a call that has returned has taken one of the two.
C16_OneSigningPath ==
  /\ ~(sg.local # <<>> /\ sg.walletCalls # <<>>)
  /\ ~InstanceofAccount(sg.payer) => sg.local = <<>>
  /\ InstanceofAccount(sg.payer) => sg.walletCalls = <<>>
  /\ sg.pos = "returned" => (sg.local # <<>> \/ sg.walletCalls # <<>>)

\* C19: once signTransactions with an Account as payer has its blockhash, it
\* calls transaction.sign for every entry, with the payer followed by that
\* entry's signers (none for an entry without the field), and it returns.
C19_SignsEveryEntry ==
  (api = "signTransactions" /\ InstanceofAccount(sg.payer) /\ sg.blockhash)
    => /\ sg.pos = "returned"
       /\ Len(sg.local) = Len(sg.entries)
       /\ \A k \in 1..Len(sg.local) :
            sg.local[k] = <<PayerArg(sg.payer)>> \o DefaultSigners(sg.entries[k])

====
